---- MODULE Spec2Model ----
(***************************************************************************)
(* The section-data route of index.js, GET /api/data/:section, together    *)
(* with the store it reads and the write routes that change that store.    *)
(* One request is a handler invocation: it issues five filtered reads,     *)
(* awaits Promise.all over them, and answers with the envelope or with a   *)
(* status 500 error.                                                       *)
(***************************************************************************)
EXTENDS Integers, Sequences, FiniteSets, TLC

VARIABLES store, writes, phase, section, sub, readAt, issued, resp, nresp

vars == <<store, writes, phase, section, sub, readAt, issued, resp, nresp>>

(* ------------------------------ bounds --------------------------------- *)

\* calls of the write routes explored in one run
MaxWrites == 1

(* ------------------------------ inputs --------------------------------- *)

Requests == {"r1", "r2"}

\* section parameters of a request: two sections the store knows, one it does
\* not, and the tag the announcements use for every section
Sections == {"A", "B", "Z", "all"}

\* section parameters when two requests run together
PairSections == {"A", "B", "all"}

(* ------------------------------ the store ------------------------------ *)

\* the five collections, in the order of the array given to Promise.all
Collections == <<"teachers", "students", "announcements", "materials", "timetables">>

CollSet == {Collections[i] : i \in 1..Len(Collections)}

InitialStore ==
    [teachers      |-> <<[id |-> 1, section |-> "A"], [id |-> 2, section |-> "B"]>>,
     students      |-> <<[roll |-> 1, section |-> "A"], [roll |-> 2, section |-> "B"]>>,
     announcements |-> <<[id |-> 1, section |-> "A", created_at |-> 1],
                         [id |-> 2, section |-> "all", created_at |-> 2],
                         [id |-> 3, section |-> "B", created_at |-> 3]>>,
     materials     |-> <<[id |-> 1, section |-> "B"], [id |-> 2, section |-> "A"]>>,
     timetables    |-> <<[id |-> 1, section |-> "A"], [id |-> 2, section |-> "B"]>>]

Range(seq) == {seq[i] : i \in 1..Len(seq)}

\* .eq('section', value)
Eq(rows, value) == SelectSeq(rows, LAMBDA row : row.section = value)

\* .in('section', values)
In(rows, values) == SelectSeq(rows, LAMBDA row : row.section \in values)

\* one step of the ordering: row goes after the rows that are not older
RECURSIVE InsertDesc(_, _)
InsertDesc(sorted, row) ==
    IF sorted = <<>> THEN <<row>>
    ELSE IF Head(sorted).created_at >= row.created_at
         THEN <<Head(sorted)>> \o InsertDesc(Tail(sorted), row)
         ELSE <<row>> \o sorted

\* the query without its .order(...)
OrderNone(rows) == rows

\* .order('created_at', { ascending: false })
RECURSIVE OrderDesc(_)
OrderDesc(rows) ==
    IF rows = <<>> THEN <<>>
    ELSE InsertDesc(OrderDesc(SubSeq(rows, 1, Len(rows) - 1)), rows[Len(rows)])

\* every collection filtered with .eq('section', section)
QueryEqOnly(c, s, rows) == Eq(rows, s)

\* the query the route builds for collection c
Query(c, s, rows) ==
    IF c = "announcements" THEN OrderDesc(In(rows, {s, "all"}))
    ELSE Eq(rows, s)

(* --------------------------- sub-fetch results ------------------------- *)

Null == [null |-> TRUE]

Message(c) == "fault in " \o c

StoreError(c) == [message |-> Message(c)]

Pending == [kind |-> "pending", data |-> <<>>, error |-> Null]

\* the builder resolves with { data, error: null }
Resolved(rows) == [kind |-> "value", data |-> rows, error |-> Null]

\* the builder resolves with { data: null, error }
ResolvedError(c) == [kind |-> "value", data |-> <<>>, error |-> StoreError(c)]

\* the builder rejects
Rejected(c) == [kind |-> "rejected", data |-> <<>>, error |-> StoreError(c)]

Truthy(e) == e # Null

Settled(subs) == \A c \in CollSet : subs[c].kind # "pending"

\* Promise.race in the place of Promise.all
PromiseRace(subs) ==
    IF \E c \in CollSet : subs[c].kind = "rejected"
    THEN [state |-> "rejected",
          reason |-> (CHOOSE c \in CollSet : subs[c].kind = "rejected")]
    ELSE IF \E c \in CollSet : subs[c].kind # "pending"
         THEN [state |-> "fulfilled", reason |-> "none"]
         ELSE [state |-> "pending", reason |-> "none"]

\* Promise.all over the five builders
PromiseAll(subs) ==
    IF \E c \in CollSet : subs[c].kind = "rejected"
    THEN [state |-> "rejected",
          reason |-> (CHOOSE c \in CollSet : subs[c].kind = "rejected")]
    ELSE IF Settled(subs) THEN [state |-> "fulfilled", reason |-> "none"]
    ELSE [state |-> "pending", reason |-> "none"]

(* ------------------------ the handler's second half -------------------- *)

\* b || a
OrLast(a, b) == IF Truthy(b) THEN b ELSE a

\* a || b
Or(a, b) == IF Truthy(a) THEN a ELSE b

\* te || se || ae || me
FirstErrorFour(subs) ==
    Or(subs["teachers"].error,
       Or(subs["students"].error,
          Or(subs["announcements"].error, subs["materials"].error)))

\* te || se || ae || me || tte
FirstError(subs) ==
    Or(subs["teachers"].error,
       Or(subs["students"].error,
          Or(subs["announcements"].error,
             Or(subs["materials"].error, subs["timetables"].error))))

Fees == [amount |-> 5000, recipient |-> "Hardik Bhandari"]

\* { section: teachers } in the place of { [section]: teachers }
EnvelopeLiteralKey(s, subs) ==
    [teachers      |-> ("section" :> subs["teachers"].data),
     students      |-> ("section" :> subs["students"].data),
     announcements |-> subs["announcements"].data,
     materials     |-> ("section" :> subs["materials"].data),
     timetables    |-> ("section" :> subs["timetables"].data),
     fees          |-> Fees]

\* the object literal of lines 74-81
Envelope(s, subs) ==
    [teachers      |-> (s :> subs["teachers"].data),
     students      |-> (s :> subs["students"].data),
     announcements |-> subs["announcements"].data,
     materials     |-> (s :> subs["materials"].data),
     timetables    |-> (s :> subs["timetables"].data),
     fees          |-> Fees]

\* nothing sent
NoResponse == [status |-> 0, body |-> [none |-> TRUE]]

\* the number of responses a step of the handler has sent
Sent(response) == IF response = NoResponse THEN 0 ELSE 1

\* res.json(data)
Json(data) == [status |-> 200, body |-> data]

\* a catch block that logs and sends nothing
CatchSilent(error) == NoResponse

\* the catch block
Catch(error) == [status |-> 500, body |-> [error |-> error.message]]


\* a handler that answers an empty section with an error
ResumeEmptyFails(s, subs) ==
    LET p == PromiseAll(subs) IN
    IF p.state = "rejected" THEN Catch(subs[p.reason].error)
    ELSE IF Truthy(FirstError(subs)) THEN Catch(FirstError(subs))
    ELSE IF \A c \in CollSet : subs[c].data = <<>> THEN Catch([message |-> "no data"])
    ELSE Json(Envelope(s, subs))

\* what the handler does when the awaited Promise.all has settled
Resume(s, subs) ==
    LET p == PromiseAll(subs) IN
    IF p.state = "rejected" THEN Catch(subs[p.reason].error)
    ELSE IF Truthy(FirstError(subs)) THEN Catch(FirstError(subs))
    ELSE Json(Envelope(s, subs))

\* every read issued a second time
IssueTwice(n) == [c \in CollSet |-> n[c] + 2]

\* the five reads the handler issues
Issue(n) == [c \in CollSet |-> n[c] + 1]

(* ------------------------------- state --------------------------------- *)

\* store   the five collections, each the rows of its table in table order
\* writes  the number of write-route calls so far
\* phase   where the handler of a request is: "unused" (no such request in this
\*         run), "idle" (not arrived), "awaiting" (at the await), "done"
\* section req.params.section
\* sub     the five promises of the request
\* readAt  the rows of the table when the store answered the read (history)
\* issued  the number of reads issued per collection (history)
\* resp    the response sent, nresp the number of responses sent

InitWith(present) ==
    /\ store = InitialStore
    /\ writes = 0
    /\ phase = [r \in Requests |-> IF r \in present THEN "idle" ELSE "unused"]
    /\ section = [r \in Requests |-> "none"]
    /\ sub = [r \in Requests |-> [c \in CollSet |-> Pending]]
    /\ readAt = [r \in Requests |-> [c \in CollSet |-> <<>>]]
    /\ issued = [r \in Requests |-> [c \in CollSet |-> 0]]
    /\ resp = [r \in Requests |-> NoResponse]
    /\ nresp = [r \in Requests |-> 0]

\* one request
Init == InitWith({"r1"})

\* two requests in flight together
InitPair == InitWith(Requests)

(* ------------------------ the section-data route ----------------------- *)

\* requests are numbered in the order they arrive
Before(q, r) == q = "r1" /\ r = "r2"

\* the section kept in a variable of the module, shared by the requests
LastParam(r) == IF section["r2"] # "none" THEN section["r2"] ELSE section[r]

\* const { section } = req.params
Param(r) == section[r]

\* the request arrives: the handler runs up to the await
Start(r, s) ==
    /\ phase[r] = "idle"
    /\ \A q \in Requests : Before(q, r) => phase[q] # "idle"
    /\ phase' = [phase EXCEPT ![r] = "awaiting"]
    /\ section' = [section EXCEPT ![r] = s]
    /\ issued' = [issued EXCEPT ![r] = Issue(issued[r])]
    /\ UNCHANGED <<store, writes, sub, readAt, resp, nresp>>

\* a sub-fetch of r has settled with outcome o; the handler resumes if the
\* Promise.all it awaits is thereby settled
Deliver(r, c, o) ==
    /\ phase[r] \in {"awaiting", "done"}
    /\ sub[r][c].kind = "pending"
    /\ sub' = [sub EXCEPT ![r][c] = o]
    /\ IF phase[r] = "awaiting" /\ PromiseAll(sub'[r]).state # "pending"
       THEN /\ resp' = [resp EXCEPT ![r] = Resume(Param(r), sub'[r])]
            /\ nresp' = [nresp EXCEPT ![r] = @ + Sent(Resume(Param(r), sub'[r]))]
            /\ phase' = [phase EXCEPT ![r] = "done"]
       ELSE UNCHANGED <<resp, nresp, phase>>
    /\ UNCHANGED <<store, writes, section, issued>>

\* the store answers the read
Fulfil(r, c) ==
    /\ Deliver(r, c, Resolved(Query(c, Param(r), store[c])))
    /\ readAt' = [readAt EXCEPT ![r][c] = store[c]]

\* the read fails and the failure comes back as an error value
FailValue(r, c) ==
    /\ Deliver(r, c, ResolvedError(c))
    /\ UNCHANGED readAt

\* the read fails and the builder rejects
Reject(r, c) ==
    /\ Deliver(r, c, Rejected(c))
    /\ UNCHANGED readAt

(* --------------------------- the write routes -------------------------- *)

\* the store operation of a write route, when the store accepts it
Write(c, rows) ==
    /\ writes < MaxWrites
    /\ store' = [store EXCEPT ![c] = rows]
    /\ writes' = writes + 1
    /\ UNCHANGED <<phase, section, sub, readAt, issued, resp, nresp>>

NextKey(keys) == IF keys = {} THEN 1 ELSE 1 + CHOOSE k \in keys : \A j \in keys : j <= k

\* POST /api/students
PostStudent(s) ==
    LET rows == store["students"] IN
    Write("students",
          Append(rows, [roll |-> NextKey({row.roll : row \in Range(rows)}), section |-> s]))

\* PATCH /api/students/:roll
PatchStudent(roll, s) ==
    LET rows == store["students"] IN
    /\ \E row \in Range(rows) : row.roll = roll /\ row.section # s
    /\ Write("students",
             [i \in 1..Len(rows) |->
                 IF rows[i].roll = roll THEN [rows[i] EXCEPT !.section = s] ELSE rows[i]])

\* DELETE /api/students/:roll
DeleteStudent(roll) ==
    LET rows == store["students"] IN
    /\ \E row \in Range(rows) : row.roll = roll
    /\ Write("students", SelectSeq(rows, LAMBDA row : row.roll # roll))

\* POST /api/announcements
PostAnnouncement(s, t) ==
    LET rows == store["announcements"] IN
    Write("announcements",
          Append(rows, [id |-> NextKey({row.id : row \in Range(rows)}),
                        section |-> s, created_at |-> t]))

\* DELETE /api/announcements/:id
DeleteAnnouncement(id) ==
    LET rows == store["announcements"] IN
    /\ \E row \in Range(rows) : row.id = id
    /\ Write("announcements", SelectSeq(rows, LAMBDA row : row.id # id))

(* ---------------------------- specification ---------------------------- *)

Settle ==
    \E r \in Requests, c \in CollSet : Fulfil(r, c) \/ FailValue(r, c) \/ Reject(r, c)

Next ==
    \/ \E r \in Requests, s \in Sections : Start(r, s)
    \/ \E r \in Requests, c \in CollSet : Fulfil(r, c)
    \/ \E r \in Requests, c \in CollSet : FailValue(r, c)
    \/ \E r \in Requests, c \in CollSet : Reject(r, c)
    \/ PostStudent("A")
    \/ PatchStudent(1, "B")
    \/ DeleteStudent(2)
    \/ PostAnnouncement("all", 3)
    \/ DeleteAnnouncement(2)

\* one request to the section-data route, beside the write routes
Spec == Init /\ [][Next]_vars

\* every sub-fetch that is in flight settles
FairSpec == Spec /\ WF_vars(Settle)

\* two requests whose reads all succeed, beside the write routes
NextPair ==
    \/ \E r \in Requests, s \in PairSections : Start(r, s)
    \/ \E r \in Requests, c \in CollSet : Fulfil(r, c)
    \/ PostStudent("A")
    \/ PatchStudent(1, "B")
    \/ DeleteStudent(2)
    \/ PostAnnouncement("all", 3)
    \/ DeleteAnnouncement(2)

SpecPair == InitPair /\ [][NextPair]_vars

(* ------------------------------ properties ----------------------------- *)

Responded(r) == nresp[r] > 0

\* the sub-fetches of r that have reported an error, as a value or by rejecting
Failed(r) == {c \in CollSet : sub[r][c].error # Null}

Rejections(r) == {c \in CollSet : sub[r][c].kind = "rejected"}

Index(c) == CHOOSE i \in 1..Len(Collections) : Collections[i] = c

\* the first failing sub-fetch in the order teachers, students, announcements,
\* materials, timetables
FirstFailed(r) == CHOOSE c \in Failed(r) : \A d \in Failed(r) : Index(c) <= Index(d)

Wrapped == {"teachers", "students", "materials", "timetables"}

Keys == CollSet \cup {"fees"}

IsEnvelope(r) == resp[r].status = 200 /\ DOMAIN resp[r].body = Keys

IsError(r) == resp[r].status = 500 /\ DOMAIN resp[r].body = {"error"}

\* the values of section that collection c returns to a request for section s
Wanted(c, s) == IF c = "announcements" THEN {s, "all"} ELSE {s}

\* C1: once a request is answered, if any of its sub-fetches has reported an
\* error the answer is status 500 with a body {error: message}, the message
\* being that of a failed sub-fetch, and it is not the envelope.
C1_AllOrNothing ==
    \A r \in Requests :
        (Responded(r) /\ Failed(r) # {}) =>
            /\ IsError(r)
            /\ resp[r].body.error \in {Message(c) : c \in Failed(r)}
            /\ ~IsEnvelope(r)

\* only the materials fetch failed, the other four succeeded, and the request
\* was answered
C1_Witness ==
    \E r \in Requests :
        /\ Responded(r)
        /\ Failed(r) = {"materials"}
        /\ \A c \in CollSet \ {"materials"} : sub[r][c].kind = "value"

\* C2 as stated: whenever an answered request has failed sub-fetches, the
\* message returned is that of the first failing one in the fixed order.
C2_FirstInFixedOrder ==
    \A r \in Requests :
        (Responded(r) /\ Failed(r) # {}) =>
            resp[r].body.error = Message(FirstFailed(r))

\* C2 amended: when every failure is reported as an error value the message
\* returned is that of the first failing sub-fetch in the fixed order; when a
\* sub-fetch rejects, the request is answered at the first rejection, with the
\* message of the sub-fetch that rejected.
C2_FirstErrorValueOrFirstRejection ==
    /\ [](\A r \in Requests :
            (Responded(r) /\ Failed(r) # {} /\ Rejections(r) = {}) =>
                resp[r].body.error = Message(FirstFailed(r)))
    /\ [][\A r \in Requests :
            (nresp[r] = 0 /\ nresp'[r] = 1
                /\ \E c \in CollSet : sub'[r][c].kind = "rejected") =>
                /\ Rejections(r) = {}
                /\ \E c \in CollSet :
                      /\ sub[r][c].kind = "pending"
                      /\ sub'[r][c].kind = "rejected"
                      /\ resp'[r].body.error = Message(c)]_vars

\* students and materials failed with error values, nothing rejected, and the
\* request was answered
C2_Witness ==
    \E r \in Requests :
        /\ Responded(r)
        /\ Failed(r) = {"students", "materials"}
        /\ Rejections(r) = {}

\* C3 as stated: no response is sent before all five sub-fetches have settled.
C3_Barrier == \A r \in Requests : Responded(r) => Settled(sub[r])

\* C3 amended: a response sent before all five sub-fetches have settled is the
\* status 500 answer to a sub-fetch that rejected; the envelope, and the answer
\* to failures reported as error values, are sent only after all five settled.
C3_BarrierUnlessRejected ==
    \A r \in Requests :
        Responded(r) =>
            \/ Settled(sub[r])
            \/ IsError(r) /\ Rejections(r) # {}

\* a request answered with an error after all five settled, one of them with
\* an error value and none by rejecting
C3_Witness ==
    \E r \in Requests :
        /\ Responded(r)
        /\ IsError(r)
        /\ Settled(sub[r])
        /\ Failed(r) # {}
        /\ Rejections(r) = {}

\* C4: a status 200 response has exactly the six keys; teachers, students,
\* materials and timetables are mappings with the single key section whose
\* value is the list the sub-fetch returned, announcements is the list its
\* sub-fetch returned, and fees is {amount: 5000, recipient: "Hardik Bhandari"}.
C4_EnvelopeShape ==
    \A r \in Requests :
        resp[r].status = 200 =>
            /\ DOMAIN resp[r].body = Keys
            /\ \A c \in Wrapped :
                  /\ DOMAIN resp[r].body[c] = {section[r]}
                  /\ resp[r].body[c][section[r]] = sub[r][c].data
            /\ resp[r].body.announcements = sub[r]["announcements"].data
            /\ resp[r].body.fees = [amount |-> 5000, recipient |-> "Hardik Bhandari"]

\* an envelope for section A that holds rows
C4_Witness ==
    \E r \in Requests :
        /\ resp[r].status = 200
        /\ section[r] = "A"
        /\ resp[r].body.teachers["A"] # <<>>
        /\ resp[r].body.announcements # <<>>

\* C5: in a status 200 response for section s every record under teachers,
\* students, materials and timetables has section s, every record under
\* announcements has section s or "all", and every row that matched the
\* collection's filter when the store answered the read is in the response.
C5_SectionFiltering ==
    \A r \in Requests :
        resp[r].status = 200 =>
            /\ \A c \in Wrapped : \A k \in DOMAIN resp[r].body[c] :
                  /\ \A row \in Range(resp[r].body[c][k]) : row.section = section[r]
                  /\ \A row \in Range(readAt[r][c]) :
                        row.section = section[r] => row \in Range(resp[r].body[c][k])
            /\ \A row \in Range(resp[r].body.announcements) :
                  row.section \in {section[r], "all"}
            /\ \A row \in Range(readAt[r]["announcements"]) :
                  row.section \in {section[r], "all"} =>
                      row \in Range(resp[r].body.announcements)

\* an envelope for section A with an announcement of A and one for all, built
\* from a students table that also held rows of another section, read before a
\* write changed the table
C5_Witness ==
    \E r \in Requests :
        /\ resp[r].status = 200
        /\ section[r] = "A"
        /\ \E row \in Range(resp[r].body.announcements) : row.section = "all"
        /\ \E row \in Range(resp[r].body.announcements) : row.section = "A"
        /\ \E row \in Range(readAt[r]["students"]) : row.section = "B"
        /\ readAt[r]["students"] # store["students"]

\* C6 as stated: of two answered requests for different sections, neither
\* envelope holds a record whose section field is the other request's section.
C6_NoRecordOfOther ==
    \A r, q \in Requests :
        (r # q /\ resp[r].status = 200 /\ resp[q].status = 200
               /\ section[r] # section[q]) =>
            /\ \A c \in Wrapped : \A k \in DOMAIN resp[r].body[c] :
                  \A row \in Range(resp[r].body[c][k]) : row.section # section[q]
            /\ \A row \in Range(resp[r].body.announcements) :
                  row.section # section[q]

\* C6 amended: of two answered requests for different sections A and B, the
\* envelope for A holds no record whose section field is B, except the
\* announcements tagged "all" when B is "all".
C6_NoLeak ==
    \A r, q \in Requests :
        (r # q /\ resp[r].status = 200 /\ resp[q].status = 200
               /\ section[r] # section[q]) =>
            /\ \A c \in Wrapped : \A k \in DOMAIN resp[r].body[c] :
                  \A row \in Range(resp[r].body[c][k]) : row.section # section[q]
            /\ \A row \in Range(resp[r].body.announcements) :
                  row.section = section[q] => row.section = "all"

\* two envelopes, for A and for B, each holding rows, from requests that were in
\* flight together: the second to arrive read the students before a write and
\* the first to arrive read them after it
C6_Witness ==
    /\ resp["r1"].status = 200
    /\ resp["r2"].status = 200
    /\ section["r1"] = "A"
    /\ section["r2"] = "B"
    /\ resp["r1"].body.students["A"] # <<>>
    /\ resp["r2"].body.students["B"] # <<>>
    /\ readAt["r2"]["students"] = InitialStore.students
    /\ readAt["r1"]["students"] # InitialStore.students

\* no row read for request r matched the filter of its collection
NoMatch(r) ==
    \A c \in CollSet : \A row \in Range(readAt[r][c]) :
        row.section \notin Wanted(c, section[r])

EmptyEnvelope(s) ==
    [teachers      |-> (s :> <<>>),
     students      |-> (s :> <<>>),
     announcements |-> <<>>,
     materials     |-> (s :> <<>>),
     timetables    |-> (s :> <<>>),
     fees          |-> [amount |-> 5000, recipient |-> "Hardik Bhandari"]]

\* C7: when all five sub-fetches have settled without error and no row read
\* matched the section, the request is answered once with status 200 and the
\* envelope of empty lists with the fees record.
C7_EmptySection ==
    \A r \in Requests :
        (Settled(sub[r]) /\ Failed(r) = {} /\ NoMatch(r)) =>
            /\ nresp[r] = 1
            /\ resp[r] = [status |-> 200, body |-> EmptyEnvelope(section[r])]

\* a request for the section the store does not know, read when no
\* announcement for all was in the store
C7_Witness ==
    \E r \in Requests :
        /\ section[r] = "Z"
        /\ Settled(sub[r])
        /\ Failed(r) = {}
        /\ NoMatch(r)

\* C8: in a status 200 response the announcements are in descending order of
\* created_at: each entry is at least as recent as the one after it.
C8_AnnouncementOrder ==
    \A r \in Requests :
        resp[r].status = 200 =>
            \A i \in 1..(Len(resp[r].body.announcements) - 1) :
                resp[r].body.announcements[i].created_at
                    >= resp[r].body.announcements[i + 1].created_at

\* an envelope with three announcements, two of them of the same time, that
\* are not in the order of the table
C8_Witness ==
    \E r \in Requests :
        /\ resp[r].status = 200
        /\ Len(resp[r].body.announcements) = 3
        /\ resp[r].body.announcements[1].created_at
              = resp[r].body.announcements[2].created_at
        /\ resp[r].body.announcements[2].created_at
              > resp[r].body.announcements[3].created_at
        /\ resp[r].body.announcements
              # In(readAt[r]["announcements"], {section[r], "all"})

C10_ExactlyOneResponse ==
    /\ [](\A r \in Requests :
            /\ nresp[r] <= 1
            /\ nresp[r] = 0 => resp[r] = NoResponse
            /\ nresp[r] = 1 => (IsEnvelope(r) # IsError(r)))
    /\ \A r \in Requests : (phase[r] = "awaiting") ~> (nresp[r] = 1)

\* a request answered once upon a rejection, another of its sub-fetches having
\* failed with an error value
C10_Witness ==
    \E r \in Requests :
        /\ nresp[r] = 1
        /\ Rejections(r) # {}
        /\ Failed(r) \ Rejections(r) # {}

====
